---- MODULE Spec2Model ----
(***************************************************************************)
(* Nursery pricing calculator (src/nursery_pricing_basic.py).              *)
(*                                                                         *)
(* The page is a Streamlit script: every widget change re-runs the script  *)
(* from its first line with the widgets' current values.  The model keeps  *)
(* the widget values, the script's position and the script's variables.    *)
(*                                                                         *)
(* The script computes with Python floats (IEEE-754 binary64, round to     *)
(* nearest, ties to even).  The model computes the same way: a float is a  *)
(* sign, a 53-bit mantissa and an exponent, and every operation rounds its *)
(* exact result once.  Mantissas do not fit the checker's integers, so     *)
(* they are kept as little-endian sequences of 15-bit limbs.               *)
(***************************************************************************)
EXTENDS Integers, Sequences, FiniteSets, TLC

----------------------------------------------------------------------------
(* Natural numbers of any size: little-endian limbs, no leading zero limb. *)

LimbBits == 15

Base == 2^LimbBits

Limb(a, i) == IF i <= Len(a) THEN a[i] ELSE 0

RECURSIVE BNorm(_)
BNorm(a) ==
    IF a = <<>> THEN <<>>
    ELSE IF a[Len(a)] = 0 THEN BNorm(SubSeq(a, 1, Len(a) - 1))
    ELSE a

RECURSIVE BAddC(_, _, _, _)
BAddC(a, b, i, c) ==
    IF i > Len(a) /\ i > Len(b)
    THEN (IF c = 0 THEN <<>> ELSE <<c>>)
    ELSE LET s == Limb(a, i) + Limb(b, i) + c
         IN  <<s % Base>> \o BAddC(a, b, i + 1, s \div Base)

BAdd(a, b) == BAddC(a, b, 1, 0)

RECURSIVE BSubC(_, _, _, _)
BSubC(a, b, i, c) ==
    IF i > Len(a) THEN <<>>
    ELSE LET d == a[i] - Limb(b, i) - c
         IN  IF d < 0
             THEN <<d + Base>> \o BSubC(a, b, i + 1, 1)
             ELSE <<d>> \o BSubC(a, b, i + 1, 0)

\* a - b for a >= b
BSub(a, b) == BNorm(BSubC(a, b, 1, 0))

RECURSIVE BCmpAt(_, _, _)
BCmpAt(a, b, i) ==
    IF i = 0 THEN 0
    ELSE IF a[i] > b[i] THEN 1
    ELSE IF a[i] < b[i] THEN -1
    ELSE BCmpAt(a, b, i - 1)

\* -1, 0, 1 as a < b, a = b, a > b
BCmp(a, b) ==
    IF Len(a) > Len(b) THEN 1
    ELSE IF Len(a) < Len(b) THEN -1
    ELSE BCmpAt(a, b, Len(a))

RECURSIVE BMulLimbC(_, _, _, _)
BMulLimbC(a, d, i, c) ==
    IF i > Len(a)
    THEN (IF c = 0 THEN <<>> ELSE <<c>>)
    ELSE LET p == a[i] * d + c
         IN  <<p % Base>> \o BMulLimbC(a, d, i + 1, p \div Base)

\* a * d for one limb d
BMulLimb(a, d) == IF d = 0 THEN <<>> ELSE BMulLimbC(a, d, 1, 0)

Zeros(n) == [i \in 1..n |-> 0]

RECURSIVE BMulAt(_, _, _)
BMulAt(a, b, j) ==
    IF j > Len(b) THEN <<>>
    ELSE BAdd(IF b[j] = 0 THEN <<>> ELSE Zeros(j - 1) \o BMulLimb(a, b[j]),
              BMulAt(a, b, j + 1))

BMul(a, b) == IF a = <<>> \/ b = <<>> THEN <<>> ELSE BMulAt(a, b, 1)

\* a * 2^n
BShl(a, n) ==
    IF a = <<>> THEN <<>>
    ELSE Zeros(n \div LimbBits) \o BMulLimb(a, 2^(n % LimbBits))

RECURSIVE BDivLimbC(_, _, _, _)
BDivLimbC(a, d, i, r) ==
    IF i = 0 THEN <<>>
    ELSE LET x == r * Base + a[i]
         IN  BDivLimbC(a, d, i - 1, x % d) \o <<x \div d>>

\* floor(a / 2^n)
BShr(a, n) ==
    LET k == n \div LimbBits
        t == IF k >= Len(a) THEN <<>> ELSE SubSeq(a, k + 1, Len(a))
    IN  BNorm(BDivLimbC(t, 2^(n % LimbBits), Len(t), 0))

RECURSIVE IntBitLen(_)
IntBitLen(n) == IF n = 0 THEN 0 ELSE 1 + IntBitLen(n \div 2)

BBitLen(a) ==
    IF a = <<>> THEN 0 ELSE LimbBits * (Len(a) - 1) + IntBitLen(a[Len(a)])

RECURSIVE BFromInt(_)
BFromInt(n) == IF n = 0 THEN <<>> ELSE <<n % Base>> \o BFromInt(n \div Base)

----------------------------------------------------------------------------
(* binary64.  A float is [s, e, m]: value (-1)^s * m * 2^e, with m = <<>>  *)
(* and e = 0 for zero and 2^52 <= m < 2^53 otherwise.  The inputs the      *)
(* model draws keep every exponent far from the overflow and subnormal     *)
(* ranges, so the exponent is not clamped.                                 *)

MantBits == 53

FZero == [s |-> 0, e |-> 0, m |-> <<>>]

\* a mantissa of 53 or 54 bits brought to 53 (the low bit of 54 is then 0)
FNormal(s, e, m) ==
    IF BBitLen(m) > MantBits
    THEN [s |-> s, e |-> e + 1, m |-> BShr(m, 1)]
    ELSE [s |-> s, e |-> e, m |-> m]

\* q2 is n without its low sh - 1 bits: 53 bits to keep, then the bit that
\* decides.  Up when that bit is set and either something follows it or the
\* kept mantissa is odd (ties go to even).
FRoundCut(s, n, e, sticky, sh, q2) ==
    FNormal(s, e + sh,
            BShr(IF /\ q2[1] % 2 = 1
                    /\ (sticky \/ q2[1] % 4 = 3 \/ BShl(q2, sh - 1) # n)
                 THEN BAdd(q2, <<1>>) ELSE q2, 1))

FRoundLen(s, n, e, sticky, len) ==
    IF len <= MantBits
    THEN [s |-> s, e |-> e - (MantBits - len), m |-> BShl(n, MantBits - len)]
    ELSE FRoundCut(s, n, e, sticky, len - MantBits, BShr(n, len - MantBits - 1))

\* (-1)^s * (n + a little, when sticky) * 2^e, rounded to nearest, ties to even
FRound(s, n, e, sticky) ==
    IF n = <<>> THEN FZero ELSE FRoundLen(s, n, e, sticky, BBitLen(n))

FFromInt(n) == FRound(IF n < 0 THEN 1 ELSE 0, BFromInt(IF n < 0 THEN -n ELSE n),
                      0, FALSE)

FNeg(a) == IF a.m = <<>> THEN a ELSE [a EXCEPT !.s = 1 - a.s]

\* compare magnitudes
FCmpAbs(a, b) ==
    IF a.m = <<>> THEN (IF b.m = <<>> THEN 0 ELSE -1)
    ELSE IF b.m = <<>> THEN 1
    ELSE IF a.e > b.e THEN 1
    ELSE IF a.e < b.e THEN -1
    ELSE BCmp(a.m, b.m)

\* -1, 0, 1 as a < b, a = b, a > b
FCmp(a, b) ==
    IF a.s = b.s THEN (IF a.s = 0 THEN 1 ELSE -1) * FCmpAbs(a, b)
    ELSE IF a.s = 0 THEN 1
    ELSE -1

FLt(a, b) == FCmp(a, b) < 0
FLe(a, b) == FCmp(a, b) <= 0
FGt(a, b) == FCmp(a, b) > 0
FGe(a, b) == FCmp(a, b) >= 0

\* x and y are the magnitudes on one exponent e, c compares them
FAddMag(sa, sb, e, x, y, c) ==
    FRound(IF sa = sb \/ c > 0 THEN sa ELSE sb,
           IF sa = sb THEN BAdd(x, y)
           ELSE IF c >= 0 THEN BSub(x, y) ELSE BSub(y, x),
           e, FALSE)

FAddAligned(sa, sb, e, x, y) == FAddMag(sa, sb, e, x, y, BCmp(x, y))

FAddAt(a, b, e) ==
    FAddAligned(a.s, b.s, e, BShl(a.m, a.e - e), BShl(b.m, b.e - e))

FAdd(a, b) ==
    IF a.m = <<>> THEN b
    ELSE IF b.m = <<>> THEN a
    ELSE FAddAt(a, b, IF a.e < b.e THEN a.e ELSE b.e)

FSub(a, b) == FAdd(a, FNeg(b))

FMul(a, b) ==
    IF a.m = <<>> \/ b.m = <<>> THEN FZero
    ELSE FRound((a.s + b.s) % 2, BMul(a.m, b.m), a.e + b.e, FALSE)

\* the largest q with d * q <= r, tried downward from the estimate q
RECURSIVE BDigitFix(_, _, _)
BDigitFix(r, d, q) ==
    IF BCmp(BMulLimb(d, q), r) > 0 THEN BDigitFix(r, d, q - 1) ELSE q

\* the estimate of a quotient limb from the top limbs of r and d
BDigitEstimate(r, d) ==
    IF (Limb(r, Len(d) + 1) * Base + Limb(r, Len(d))) \div d[Len(d)] > Base - 1
    THEN Base - 1
    ELSE (Limb(r, Len(d) + 1) * Base + Limb(r, Len(d))) \div d[Len(d)]

\* long division by limbs, from the top limb i of n down; the top limb of d
\* is at least Base / 2, so the estimate is at most 2 too large
RECURSIVE BDivModAt(_, _, _, _, _)
RECURSIVE BDivModDigit(_, _, _, _, _, _)
BDivModDigit(n, d, i, r, q, qd) ==
    BDivModAt(n, d, i - 1, BSub(r, BMulLimb(d, qd)), <<qd>> \o q)

RECURSIVE BDivModLimb(_, _, _, _, _)
BDivModLimb(n, d, i, r, q) ==
    BDivModDigit(n, d, i, r, q, BDigitFix(r, d, BDigitEstimate(r, d)))

BDivModAt(n, d, i, r, q) ==
    IF i = 0 THEN [q |-> BNorm(q), r |-> r]
    ELSE BDivModLimb(n, d, i, BNorm(<<n[i]>> \o r), q)

BDivModFrom(n, d) == BDivModAt(n, d, Len(n), <<>>, <<>>)

\* quotient and remainder of n by d, for d # 0
BDivMod(n, d) ==
    BDivModFrom(BShl(n, LimbBits - IntBitLen(d[Len(d)])),
                BShl(d, LimbBits - IntBitLen(d[Len(d)])))

DivLimbs == 4

FDivRound(s, e, d) == FRound(s, d.q, e, d.r # <<>>)

\* a / b for b # 0
FDiv(a, b) ==
    IF a.m = <<>> THEN FZero
    ELSE FDivRound((a.s + b.s) % 2, a.e - b.e - DivLimbs * LimbBits,
                   BDivMod(Zeros(DivLimbs) \o a.m, b.m))

----------------------------------------------------------------------------
(* The widgets: what the script reads on a run.                            *)

\* a number widget's value: k quarters (every step of every number widget
\* is a whole number of quarters, so the value is exact)
FQuarters(k) == FRound(0, BFromInt(k), -2, FALSE)

\* the literals 0.10 and 1.10: the floats nearest to 1/10 and 11/10
GstRate == FDiv(FFromInt(1), FFromInt(10))
GstFactor == FDiv(FFromInt(11), FFromInt(10))

MarginMin == 20
MarginMax == 100
MarginStep == 5
DiscountMax == 50
DiscountStep == 5
MinProfitMax == 20

ProfitMargins == {m \in MarginMin..MarginMax : (m - MarginMin) % MarginStep = 0}
SalesDiscounts == {d \in 0..DiscountMax : d % DiscountStep = 0}
MinimumSalesProfits == 0..MinProfitMax

\* the values the widgets show when the page is first opened, in quarters
DefaultCosts ==
    [plant_cost |-> 20, pot_cost |-> 8, soil_cost |-> 4, fertilizer_cost |-> 2,
     packaging_cost |-> 6, other_materials |-> 0, care_hours |-> 4,
     hourly_rate |-> 80]

\* every number widget stepped up k times from zero, in quarters
SteppedCosts(k) ==
    [plant_cost |-> 2 * k, pot_cost |-> k, soil_cost |-> k, fertilizer_cost |-> k,
     packaging_cost |-> k, other_materials |-> k, care_hours |-> k,
     hourly_rate |-> 20 * k]

CostFields == DOMAIN DefaultCosts

----------------------------------------------------------------------------
(* The calculation, lines 64-103.                                          *)

TotalMaterialCost(w) ==
    FAdd(FAdd(FAdd(FAdd(w.pot_cost, w.soil_cost), w.fertilizer_cost),
              w.packaging_cost), w.other_materials)

TimeCost(w) == FMul(w.care_hours, w.hourly_rate)

TotalCost(plant_cost, total_material_cost, time_cost) ==
    FAdd(FAdd(plant_cost, total_material_cost), time_cost)

\* 1 - pct/100, the divisor of a margin and the factor of a discount
OneMinusPct(pct) == FSub(FFromInt(1), FDiv(FFromInt(pct), FFromInt(100)))

\* the division of line 71 raises ZeroDivisionError when its divisor is 0.0
MarginDivides(profit_margin) == OneMinusPct(profit_margin) # FZero

\* a slip: the cost times the divisor, not over it
BaseSellingPriceTimes(total_cost, profit_margin) ==
    FMul(total_cost, OneMinusPct(profit_margin))

\* a slip: a markup on the cost, not a margin on the price
BaseSellingPriceMarkup(total_cost, profit_margin) ==
    FMul(total_cost, FAdd(FFromInt(1),
                          FDiv(FFromInt(profit_margin), FFromInt(100))))

BaseSellingPrice(total_cost, profit_margin) ==
    FDiv(total_cost, OneMinusPct(profit_margin))

GstAmount(base_selling_price, include_gst) ==
    IF include_gst THEN FMul(base_selling_price, GstRate) ELSE FZero

ListPrice(base_selling_price, gst_amount, include_gst) ==
    IF include_gst THEN FAdd(base_selling_price, gst_amount)
    ELSE base_selling_price

DiscountedPrice(list_price, sales_discount) ==
    FMul(list_price, OneMinusPct(sales_discount))

MinPriceBeforeGst(total_cost, minimum_sales_profit) ==
    IF minimum_sales_profit > 0
    THEN FDiv(total_cost, OneMinusPct(minimum_sales_profit))
    ELSE total_cost

MinAllowablePrice(min_price_before_gst, include_gst) ==
    IF include_gst THEN FMul(min_price_before_gst, GstFactor)
    ELSE min_price_before_gst

\* Python's max(a, b): b when b > a, else a
FMax(a, b) == IF FGt(b, a) THEN b ELSE a

\* a slip: the floor is computed and not applied
FinalSellingPriceNoFloor(discounted_price, min_allowable_price) ==
    discounted_price

FinalSellingPrice(discounted_price, min_allowable_price) ==
    FMax(discounted_price, min_allowable_price)

\* a slip: GST backed out by taking 10% off the final price
ActualPriceLessTenPercent(final_selling_price, include_gst) ==
    IF include_gst THEN FMul(final_selling_price, OneMinusPct(10))
    ELSE final_selling_price

ActualPriceBeforeGst(final_selling_price, include_gst) ==
    IF include_gst THEN FDiv(final_selling_price, GstFactor)
    ELSE final_selling_price

ActualGst(final_selling_price, actual_price_before_gst, include_gst) ==
    IF include_gst THEN FSub(final_selling_price, actual_price_before_gst)
    ELSE FZero

ActualProfit(actual_price_before_gst, total_cost) ==
    FSub(actual_price_before_gst, total_cost)

ActualMargin(actual_profit, actual_price_before_gst) ==
    IF FGt(actual_price_before_gst, FZero)
    THEN FMul(FDiv(actual_profit, actual_price_before_gst), FFromInt(100))
    ELSE FZero

\* lines 66-67
Step1Parts(w) ==
    [total_material_cost |-> TotalMaterialCost(w), time_cost |-> TimeCost(w)]

\* line 68
Step1Total(w, a) ==
    a @@ [total_cost |-> TotalCost(w.plant_cost, a.total_material_cost,
                                   a.time_cost)]

\* lines 66-68: the names bound before the division of line 71
Step1(w) == Step1Total(w, Step1Parts(w))

\* line 71
Step2(w, a) ==
    a @@ [base_selling_price |-> BaseSellingPrice(a.total_cost, w.profit_margin)]

\* lines 74-79
Step3Gst(w, a) ==
    a @@ [gst_amount |-> GstAmount(a.base_selling_price, w.include_gst)]

Step3(w, a) ==
    a @@ [list_price |-> ListPrice(a.base_selling_price, a.gst_amount,
                                   w.include_gst)]

\* lines 83-87: bound on the discount path only
Step4Discounted(w, a) ==
    IF w.sales_discount > 0
    THEN a @@ [discounted_price     |-> DiscountedPrice(a.list_price,
                                                        w.sales_discount),
               min_price_before_gst |-> MinPriceBeforeGst(a.total_cost,
                                                          w.minimum_sales_profit)]
    ELSE a

Step4Floor(w, a) ==
    IF w.sales_discount > 0
    THEN a @@ [min_allowable_price |-> MinAllowablePrice(a.min_price_before_gst,
                                                         w.include_gst)]
    ELSE a

\* lines 90 and 92
Step4(w, a) ==
    a @@ [final_selling_price |->
              IF w.sales_discount > 0
              THEN FinalSellingPrice(a.discounted_price, a.min_allowable_price)
              ELSE a.list_price]

\* lines 95-100
Step5Price(w, a) ==
    a @@ [actual_price_before_gst |->
              ActualPriceBeforeGst(a.final_selling_price, w.include_gst)]

Step5Gst(w, a) ==
    a @@ [actual_gst |-> ActualGst(a.final_selling_price,
                                   a.actual_price_before_gst, w.include_gst)]

\* line 102
Step5Profit(w, a) ==
    a @@ [actual_profit |-> ActualProfit(a.actual_price_before_gst, a.total_cost)]

\* line 103
Step5(w, a) ==
    a @@ [actual_margin |-> ActualMargin(a.actual_profit,
                                         a.actual_price_before_gst)]

\* every name lines 64-103 bind, for widget values w
Calculation(w) ==
    Step5(w, Step5Profit(w, Step5Gst(w, Step5Price(w,
        Step4(w, Step4Floor(w, Step4Discounted(w,
            Step3(w, Step3Gst(w, Step2(w, Step1(w)))))))))))

----------------------------------------------------------------------------
(* The results, lines 105-159.                                             *)

\* a slip: the discount line is shown whether or not there is a discount
ResultsReadsDiscountAlways(w) ==
    {"total_material_cost", "time_cost", "total_cost", "final_selling_price",
     "actual_margin", "actual_profit", "list_price", "discounted_price"}
    \cup (IF w.include_gst /\ w.sales_discount = 0
          THEN {"base_selling_price", "gst_amount"} ELSE {})

\* the names the results section reads, for widget values w
ResultsReads(w) ==
    {"total_material_cost", "time_cost", "total_cost", "final_selling_price",
     "actual_margin", "actual_profit"}
    \cup (IF w.sales_discount > 0 THEN {"list_price", "discounted_price"} ELSE {})
    \cup (IF w.include_gst /\ w.sales_discount = 0
          THEN {"base_selling_price", "gst_amount"} ELSE {})

\* the profit status shown, lines 151-159
ProfitStatus(actual_margin, minimum_sales_profit) ==
    IF FGe(actual_margin, FFromInt(20)) THEN "meets target"
    ELSE IF FGe(actual_margin, FFromInt(minimum_sales_profit)) THEN "sales pricing"
    ELSE IF FGe(actual_margin, FZero) THEN "low profit"
    ELSE "loss"

----------------------------------------------------------------------------
(* The market comparison, lines 161-204.                                   *)

CompetitorName(i) ==
    CASE i = 1 -> "Competitor 1" [] i = 2 -> "Competitor 2" [] i = 3 -> "Competitor 3"

\* lines 180-186: the entries with a price entered, in widget order
RECURSIVE CompetitorsFrom(_, _)
CompetitorsFrom(prices, i) ==
    IF i > Len(prices) THEN <<>>
    ELSE (IF FGt(prices[i], FZero)
          THEN <<[Name |-> CompetitorName(i), Price |-> prices[i]]>>
          ELSE <<>>) \o CompetitorsFrom(prices, i + 1)

Competitors(prices) == CompetitorsFrom(prices, 1)

\* a slip: the comparison is shown whether or not a price was entered
ComparisonAlwaysShown(competitors) == TRUE

\* lines 188 and 220: a list is true when it is not empty
ComparisonShown(competitors) == competitors # <<>>

\* sum(...) of line 198: from 0, left to right (the prices the model draws
\* add without rounding, so a compensated sum gives the same float)
RECURSIVE SumPrices(_, _)
SumPrices(competitors, i) ==
    IF i = 0 THEN FZero
    ELSE FAdd(SumPrices(competitors, i - 1), competitors[i].Price)

\* line 198, for a list that is not empty
AvgCompetitorPrice(competitors) ==
    FDiv(SumPrices(competitors, Len(competitors)), FFromInt(Len(competitors)))

\* a slip: a price equal to the average is not competitive
IsStrictlyBelow(final_selling_price, avg_competitor_price) ==
    FLt(final_selling_price, avg_competitor_price)

\* line 200
IsCompetitive(final_selling_price, avg_competitor_price) ==
    FLe(final_selling_price, avg_competitor_price)

\* line 190: the rows of the table (line 194 sorts them by price)
ComparisonData(competitors, final_selling_price) ==
    {competitors[i] : i \in 1..Len(competitors)}
    \cup {[Name |-> "Your Price", Price |-> final_selling_price]}

----------------------------------------------------------------------------
(* The summary, lines 206-223.                                             *)

\* the names the summary reads: actual_gst only when include_gst is true
SummaryReads(w) ==
    {"final_selling_price", "total_cost", "actual_profit", "actual_margin",
     "total_material_cost", "time_cost"}
    \cup (IF w.include_gst THEN {"actual_gst"} ELSE {})

\* line 209
GstTextShown(w, v) == w.include_gst /\ FGt(v.actual_gst, FZero)

\* line 210
DiscountTextShown(w) == w.sales_discount > 0

----------------------------------------------------------------------------
(* One run of the script.                                                  *)

VARIABLES
    w,      \* the widget values the run has read so far
    v,      \* the names the script has bound, with their values
    out,    \* what the page shows
    pc,     \* the section of the script that runs next
    error   \* the exception that stopped the run, or "none"

vars == <<w, v, out, pc, error>>

Nothing == [n \in {} |-> n]

MaxCostSteps == 1
MaxMarginSteps == 2
MaxDiscountSteps == 1
MaxMinProfit == 0
MaxCompSteps == 1

\* the widget values the model draws
CostInputs == {DefaultCosts} \cup {SteppedCosts(k) : k \in 0..MaxCostSteps}

\* the lowest margins and the two highest
MarginInputs ==
    {m \in ProfitMargins : \/ m <= MarginMin + MarginStep * MaxMarginSteps
                           \/ m >= MarginMax - MarginStep}

\* no discount, and the deepest discounts
DiscountInputs ==
    {d \in SalesDiscounts :
        d = 0 \/ d >= DiscountMax - DiscountStep * MaxDiscountSteps}

\* the low settings and the setting the page opens with
MinProfitInputs == {p \in MinimumSalesProfits : p <= MaxMinProfit \/ p = 10}

\* a competitor's price: a whole number of 40 dollars
CompetitorPriceInputs == {FQuarters(160 * k) : k \in 0..MaxCompSteps}

Init ==
    /\ w = Nothing
    /\ v = Nothing
    /\ out = Nothing
    /\ pc = "inputs"
    /\ error = "none"

\* lines 29-62: the cost and pricing widgets return their values
Inputs ==
    /\ pc = "inputs"
    /\ \E c \in CostInputs, m \in MarginInputs, d \in DiscountInputs,
          p \in MinProfitInputs, g \in BOOLEAN :
          w' = [f \in CostFields |-> FQuarters(c[f])]
               @@ [profit_margin |-> m, sales_discount |-> d,
                   minimum_sales_profit |-> p, include_gst |-> g]
    /\ pc' = "calculate"
    /\ UNCHANGED <<v, out, error>>

\* lines 64-103; the division of line 71 stops the run when its divisor is 0
Calculate ==
    /\ pc = "calculate"
    /\ IF MarginDivides(w.profit_margin)
       THEN /\ v' = Calculation(w)
            /\ pc' = "results"
            /\ error' = "none"
       ELSE /\ v' = Step1(w)
            /\ pc' = "crashed"
            /\ error' = "ZeroDivisionError"
    /\ UNCHANGED <<w, out>>

\* lines 105-159; reading a name that is not bound stops the run
Results ==
    /\ pc = "results"
    /\ IF ResultsReads(w) \subseteq DOMAIN v
       THEN /\ out' = [flow   |-> ResultsReads(w)
                                  \cap {"list_price", "discounted_price",
                                        "base_selling_price", "gst_amount"},
                       status |-> ProfitStatus(v.actual_margin,
                                               w.minimum_sales_profit)]
            /\ pc' = "market"
            /\ error' = "none"
       ELSE /\ out' = out
            /\ pc' = "crashed"
            /\ error' = "NameError"
    /\ UNCHANGED <<w, v>>

\* lines 161-204: the three price widgets return their values
MarketComparison ==
    /\ pc = "market"
    /\ \E p1 \in CompetitorPriceInputs, p2 \in CompetitorPriceInputs,
          p3 \in CompetitorPriceInputs :
          LET competitors == Competitors(<<p1, p2, p3>>)
          IN  /\ w' = w @@ [comp1_price |-> p1, comp2_price |-> p2,
                            comp3_price |-> p3]
              /\ IF ~ComparisonShown(competitors)
                 THEN /\ v' = v @@ [competitors |-> competitors]
                      /\ out' = out @@ [table |-> {}, comparison |-> "none"]
                      /\ pc' = "summary"
                      /\ error' = "none"
                 ELSE IF Len(competitors) = 0
                 THEN /\ v' = v @@ [competitors |-> competitors]
                      /\ out' = out
                      /\ pc' = "crashed"
                      /\ error' = "ZeroDivisionError"
                 ELSE LET avg == AvgCompetitorPrice(competitors)
                      IN  /\ v' = v @@ [competitors |-> competitors,
                                        avg_competitor_price |-> avg]
                          /\ out' = out @@
                                [table |-> ComparisonData(competitors,
                                                          v.final_selling_price),
                                 comparison |->
                                     IF IsCompetitive(v.final_selling_price, avg)
                                     THEN "competitive" ELSE "above"]
                          /\ pc' = "summary"
                          /\ error' = "none"

\* lines 206-223
Summary ==
    /\ pc = "summary"
    /\ IF SummaryReads(w) \subseteq DOMAIN v
       THEN /\ out' = out @@
                 [gst_text        |-> GstTextShown(w, v),
                  discount_text   |-> DiscountTextShown(w),
                  market_position |-> IF ComparisonShown(v.competitors)
                                      THEN Len(v.competitors) ELSE 0]
            /\ pc' = "done"
            /\ error' = "none"
       ELSE /\ out' = out
            /\ pc' = "crashed"
            /\ error' = "NameError"
    /\ UNCHANGED <<w, v>>

Next == Inputs \/ Calculate \/ Results \/ MarketComparison \/ Summary

Spec == Init /\ [][Next]_vars

----------------------------------------------------------------------------
(* Properties.                                                             *)

\* the run is past line 103 and every name of the calculation is bound
Calculated == pc \in {"results", "market", "summary", "done"}

\* the run is past line 204
Compared == pc \in {"summary", "done"}

FAbs(a) == [a EXCEPT !.s = 0]

\* floating tolerance: 2^-30 of the larger magnitude
Tolerance == FRound(0, <<1>>, -30, FALSE)

Close(a, b) ==
    FLe(FAbs(FSub(a, b)), FMul(Tolerance, FMax(FAbs(a), FAbs(b))))

\* C1: with a discount, the final price is never below the minimum
\* allowable price: total cost over (1 - minimum profit/100), or the total
\* cost itself when the minimum profit is 0, times 1.10 with GST.
C1_DiscountFloor ==
    (Calculated /\ w.sales_discount > 0) =>
        FGe(v.final_selling_price,
            MinAllowablePrice(MinPriceBeforeGst(v.total_cost,
                                                w.minimum_sales_profit),
                              w.include_gst))

\* the floor is the price: the discounted price was below it
C1_FloorBinds ==
    /\ Calculated
    /\ w.sales_discount > 0
    /\ FLt(v.discounted_price, v.min_allowable_price)
    /\ v.final_selling_price = v.min_allowable_price
    /\ FGt(v.total_cost, FZero)

\* C2: a profit margin of 100 is rejected with MarginOutOfRange before the
\* division of line 71, and no run divides by zero.
C2_ZeroMarginGuard ==
    /\ error # "ZeroDivisionError"
    /\ (pc \notin {"inputs", "calculate"} /\ w.profit_margin = MarginMax) =>
           error = "MarginOutOfRange"

\* C3, as claimed: for any costs, the all-zero costs included, the base price
\* is strictly below the base price of every larger margin under 100.
C3_StrictlyIncreasing ==
    pc = "results" =>
        \A m2 \in ProfitMargins :
            (w.profit_margin < m2 /\ m2 < MarginMax) =>
                FLt(v.base_selling_price, BaseSellingPrice(v.total_cost, m2))

\* C3, amended: for costs with a total above zero the base price is strictly
\* below the base price of every larger margin under 100; for a total of
\* zero the base price is zero at every margin.
C3_StrictlyIncreasingAboveZero ==
    pc = "results" =>
        \A m2 \in ProfitMargins :
            (w.profit_margin < m2 /\ m2 < MarginMax) =>
                IF FGt(v.total_cost, FZero)
                THEN FLt(v.base_selling_price,
                         BaseSellingPrice(v.total_cost, m2))
                ELSE /\ v.base_selling_price = FZero
                     /\ BaseSellingPrice(v.total_cost, m2) = FZero

\* a total above zero priced at a margin that has larger margins under 100
C3_PositiveCostPriced ==
    /\ pc = "results"
    /\ FGt(v.total_cost, FZero)
    /\ w.profit_margin = MarginMin

\* the discount floor was not applied: no discount, or it left the price
\* above the floor
FloorNotApplied ==
    \/ w.sales_discount = 0
    \/ FGt(v.discounted_price, v.min_allowable_price)

\* C4: with GST and the floor not applied, the price backed out of the final
\* price times 1.10 is the final price, to floating tolerance, and the
\* actual GST is the final price less the backed-out price; with no discount
\* the backed-out price is the base price and the actual GST is the GST
\* amount, to floating tolerance.
C4_TaxRoundTrip ==
    (Calculated /\ w.include_gst /\ FloorNotApplied) =>
        /\ Close(FMul(v.actual_price_before_gst, GstFactor),
                 v.final_selling_price)
        /\ v.actual_gst = FSub(v.final_selling_price, v.actual_price_before_gst)
        /\ w.sales_discount = 0 =>
               /\ Close(v.actual_price_before_gst, v.base_selling_price)
               /\ Close(v.actual_gst, v.gst_amount)

\* GST, no discount, and a round trip that is not exact in floats
C4_RoundTripNoDiscount ==
    /\ Calculated
    /\ w.include_gst
    /\ w.sales_discount = 0
    /\ FGt(v.total_cost, FZero)
    /\ v.actual_price_before_gst # v.base_selling_price

\* C5: the actual margin is 100 * profit / price only when the profit and
\* the price before GST are both above zero, and exactly 0 otherwise: never
\* negative.
C5_MarginFallback ==
    Calculated =>
        /\ FGe(v.actual_margin, FZero)
        /\ v.actual_margin =
               IF /\ FGt(v.actual_profit, FZero)
                  /\ FGt(v.actual_price_before_gst, FZero)
               THEN FMul(FDiv(v.actual_profit, v.actual_price_before_gst),
                         FFromInt(100))
               ELSE FZero

\* all three competitor prices are 0
NoPriceEntered ==
    /\ w.comp1_price = FZero
    /\ w.comp2_price = FZero
    /\ w.comp3_price = FZero

\* C6: entries with a price of 0 are dropped; with all three prices 0 there
\* is no table, no flag and no average, and for no prices does the comparison
\* divide by zero.
C6_EmptyCompetitors ==
    "comp1_price" \in DOMAIN w =>
        /\ error # "ZeroDivisionError"
        /\ \A i \in 1..Len(v.competitors) :
               FGt(v.competitors[i].Price, FZero)
        /\ NoPriceEntered =>
               /\ pc \in {"summary", "done"}
               /\ v.competitors = <<>>
               /\ out.table = {}
               /\ out.comparison = "none"
               /\ "avg_competitor_price" \notin DOMAIN v

\* a run that ended with no price entered
C6_NothingEntered == pc = "done" /\ NoPriceEntered /\ out.comparison = "none"

\* the mean of the prices above zero, from the widgets: the zero entries add
\* nothing to the sum and are not counted
MeanOfEntered ==
    FDiv(FAdd(FAdd(w.comp1_price, w.comp2_price), w.comp3_price),
         FFromInt(Cardinality({n \in {"comp1_price", "comp2_price", "comp3_price"} :
                                   FGt(w[n], FZero)})))

\* C7: with a price entered, the average is the mean of the prices above
\* zero, and the page says competitive exactly when the final price is at
\* most the average.
C7_ComparisonCorrect ==
    (Compared /\ ~NoPriceEntered) =>
        /\ v.avg_competitor_price = MeanOfEntered
        /\ out.comparison \in {"competitive", "above"}
        /\ out.comparison = "competitive" <=>
               FLe(v.final_selling_price, MeanOfEntered)

\* two prices entered, one not, and a final price equal to their average
C7_EqualToAverage ==
    /\ Compared
    /\ Len(v.competitors) = 2
    /\ v.final_selling_price = v.avg_competitor_price
    /\ out.comparison = "competitive"

\* C8: every name the results and the summary read is bound on the path the
\* run took; discounted_price is bound and read only with a discount.
C8_OnlyBoundNamesRead ==
    /\ error # "NameError"
    /\ pc = "results" => ResultsReads(w) \subseteq DOMAIN v
    /\ pc = "summary" => SummaryReads(w) \subseteq DOMAIN v
    /\ Calculated =>
           /\ "discounted_price" \in DOMAIN v <=> w.sales_discount > 0
           /\ "discounted_price" \in ResultsReads(w) => w.sales_discount > 0

\* a run without a discount reached its end with discounted_price not bound
C8_NoDiscountRendered ==
    /\ pc = "done"
    /\ w.sales_discount = 0
    /\ "discounted_price" \notin DOMAIN v

\* the widgets hold the values the page opens with
DefaultInputs ==
    /\ \A f \in CostFields : w[f] = FQuarters(DefaultCosts[f])
    /\ w.profit_margin = 30
    /\ w.sales_discount = 0
    /\ w.minimum_sales_profit = 10
    /\ w.include_gst

\* C9: the values the page opens with give a total cost of 30, a base price
\* of 30/0.7, a GST amount of a tenth of it, a final price of the base price
\* times 1.10 (47.14 to the cent) and a margin of 30, to floating tolerance,
\* and the status "meets target".
C9_Defaults ==
    (pc \in {"market", "summary", "done"} /\ DefaultInputs) =>
        /\ v.total_cost = FFromInt(30)
        /\ Close(v.base_selling_price,
                 FDiv(FFromInt(30), FDiv(FFromInt(7), FFromInt(10))))
        /\ Close(v.gst_amount, FDiv(v.base_selling_price, FFromInt(10)))
        /\ Close(v.final_selling_price, FMul(v.base_selling_price, GstFactor))
        /\ FGe(v.final_selling_price, FDiv(FFromInt(47135), FFromInt(1000)))
        /\ FLt(v.final_selling_price, FDiv(FFromInt(47145), FFromInt(1000)))
        /\ Close(v.actual_margin, FFromInt(30))
        /\ out.status = "meets target"

\* the page as it opens, shown to its end
C9_DefaultsRendered == pc = "done" /\ DefaultInputs

\* C10: for margins up to 95 the price before GST is at least the total
\* cost, the profit and the margin are at least 0, and the status is never
\* "loss".
C10_NoLoss ==
    (Calculated /\ w.profit_margin <= MarginMax - MarginStep) =>
        /\ FGe(v.actual_price_before_gst, v.total_cost)
        /\ FGe(v.actual_profit, FZero)
        /\ FGe(v.actual_margin, FZero)
        /\ pc # "results" => out.status # "loss"

====
